---- MODULE Spec2Model ----
(***************************************************************************)
(* ShutdownGroup (src/src/shutdown/shutdown_group.rs): a group of Graceful *)
(* services with an atomic shutting_down flag, shut down by shutdown_all,  *)
(* wait_to_terminate or Drop.                                              *)
(*                                                                         *)
(* Call sites are numbered: 1..NumDirect are explicit calls of             *)
(* shutdown_all, Wtt is the future returned by wait_to_terminate, Dropper  *)
(* is Drop::drop.  Each call site has a position pc[c].  shutdown_all is   *)
(* two steps, the compare_exchange on the flag and the construction of the *)
(* service futures, so that the call sites race on the flag: an explicit   *)
(* call, wait_to_terminate and Drop may be inside shutdown_all together.   *)
(*                                                                         *)
(* The composite future returned by shutdown_all is polled by its owner:   *)
(* one poll is PollStart, one PollService per service in insertion order   *)
(* (join_all over a small Vec), and PollEnd.                               *)
(***************************************************************************)
EXTENDS Integers, Sequences, FiniteSets

\* Bounds of the model.
MaxServices == 2
NumDirect == 2
MaxSignals == 2
MaxCounted == 3
MaxGuards == 2
MaxCancels == 2
NumThreads == 2
MaxCalls == 5
MaxPending == 2
MaxPolls == 4
MaxTime == 3
MaxLen == 3
MaxManual == 1

\* Call sites.
Direct == 1..NumDirect
Wtt == NumDirect + 1
Dropper == NumDirect + 2
Callers == 1..(NumDirect + 2)
NoOwner == 0

\* Implementations of Graceful: "slow" is SlowService of shutdown_test.rs (awaits
\* force when given one); "quick" ignores force and returns Ok at once; "fail"
\* ignores force and returns Err at once; "never" never returns.
Kinds == {"slow", "quick", "fail", "never"}

\* The services of the runtime scenario: "task" resolves once another task of the
\* runtime has run, whatever the force signal.
WorkerKinds == {"quick", "task"}

VARIABLES
    shutting_down,  \* ShutdownGroup.shutting_down
    services,       \* ShutdownGroup.services: sequence of Kinds
    invoked,        \* per service: how many times its shutdown was called
    pc,             \* per call site: its position
    ret,            \* per call site: what shutdown_all returned to it
    forceArg,       \* per direct call site: TRUE when it passes Some(force)
    owner,          \* call site holding the composite future, NoOwner if none
    handles,        \* the futures returned by the services' shutdown, in order
    composite,      \* "none", "pending", "resolved", "dropped"
    cursor,         \* 0: composite not being polled; i: about to poll handle i
    woken,          \* the task awaiting the composite has been woken
    polledOnce,     \* the composite has been polled at least once
    sequences,      \* number of composite futures built so far
    shared,         \* the Shared force future of the sequence
    extReady,       \* the force future given to a direct call is ready
    sent,           \* notifications published on the broadcast channel
    rxPos,          \* channel position at which rx subscribed
    forcePos,       \* channel position at which force_rx subscribed
    exited,         \* the interrupt handler has called std::process::exit(1)
    exiting,        \* the handler's send failed; it is on its way to exit(1)
    interrupts,     \* interrupts the handler has been run for
    dropOnWorker,   \* Drop::drop runs on the worker thread of the runtime
    taskDone,       \* the task a "task" service waits for has run on the worker
    guard,          \* the call of unwind::drop_guard in progress
    counted,        \* the Counted values and the counter they report to
    dg,             \* a drop_guard::DropGuard and the runs of its closure
    seq,            \* GlobalSeq: GLOBAL_SEQ and the threads calling next
    elapsed,        \* an ElapsedFuture, its inner future and its inspector
    bound           \* a call of prefix_right_bound: its argument and its result

vars == <<shutting_down, services, invoked, pc, ret, forceArg, owner, handles,
          composite, cursor, woken, polledOnce, sequences, shared, extReady,
          sent, rxPos, forcePos, exited, exiting, interrupts, dropOnWorker, taskDone,
          guard, counted, dg, seq, elapsed, bound>>

groupVars == <<shutting_down, services, invoked>>
seqVars == <<owner, handles, composite, cursor, woken, polledOnce, sequences, shared>>
chanVars == <<sent, rxPos, forcePos>>
procVars == <<exited, exiting, interrupts>>
workerVars == <<dropOnWorker, taskDone>>
utilVars == <<workerVars, guard, counted, dg, seq, elapsed, bound>>
mainVars == <<groupVars, pc, ret, forceArg, seqVars, extReady, chanVars, procVars>>

NoShared == [src |-> "none", id |-> NoOwner, state |-> "idle",
             registered |-> FALSE, completions |-> 0]

\* The outcome of a callback, or what drop_guard hands to its caller: none yet.
NoOutcome == [kind |-> "none", val |-> "none"]

\* No call of unwind::drop_guard is in progress.
GuardIdle == [pc |-> "idle", who |-> "none", panicking |-> FALSE, runs |-> 0,
              cb |-> NoOutcome, backtraces |-> 0, out |-> NoOutcome]

\* The Counted values that can be created, and the values they wrap.
CountedIds == 1..MaxCounted
Inners == {"x", "y"}

\* The amounts a holder passes to incr through counter_mut.
Amounts == {-1, 5}

\* No Counted value exists, the shared counter is 0 and incr was never called.
\* manual is the sum of the amounts passed to incr through counter_mut, mcalls
\* the number of those calls.
CountedInit ==
    [n |-> 0, calls |-> 0, manual |-> 0, mcalls |-> 0,
     items |-> [i \in CountedIds |-> [st |-> "none", inner |-> "none"]],
     last |-> [op |-> "none", id |-> 0, arg |-> "none"],
     out |-> "none"]

\* The DropGuards that can be created.
GuardIds == 1..MaxGuards

\* No DropGuard exists.  Per guard: f is TRUE for Some(closure); runs counts the
\* calls of the closure, cancels those of cancel; seen is what the last is_active
\* returned.
DgInit ==
    [g \in GuardIds |->
        [st |-> "none", f |-> FALSE, runs |-> 0, cancels |-> 0, seen |-> "none"]]

\* The threads calling GlobalSeq::next.
Threads == 1..NumThreads

\* static GLOBAL_SEQ: AtomicUsize::new(0), and no call made.  Per thread: at is
\* "out" or "in" (inside next), seen is GLOBAL_SEQ when its call began, res the
\* value its last call returned; rets lists the returned values in the order of
\* return.
SeqInit ==
    [GLOBAL_SEQ |-> 0,
     th |-> [t \in Threads |-> [at |-> "out", seen |-> 0, res |-> -1]],
     rets |-> <<>>]

\* Instant and Duration values are counted in ticks; None for start.
NoInstant == -1

\* What the inspector was called with: nothing yet.
NoArgs == [output |-> "none", total |-> 0, busy |-> 0]

\* No ElapsedFuture exists.  pend is the number of polls the inner future still
\* answers with Pending, output what it is Ready with; inspector is TRUE for
\* Some(f); calls and args record the calls of the inspector; last and lastOut
\* record what the last poll of the wrapper returned.
ElapsedInit ==
    [st |-> "none", pend |-> 0, output |-> "none", inspector |-> FALSE,
     start |-> NoInstant, busy |-> 0, now |-> 0, polls |-> 0,
     calls |-> 0, args |-> NoArgs, last |-> "none", lastOut |-> "none"]

\* Option<String>, a string being the sequence of its chars' code points.
None == [some |-> FALSE, v |-> <<>>]

Some(v) == [some |-> TRUE, v |-> v]

\* prefix_right_bound has not been called.
BoundInit == [pc |-> "idle", p |-> <<>>, out |-> None]

\* ShutdownGroup::new, and nothing called yet.
Init ==
    /\ shutting_down = FALSE
    /\ services = <<>>
    /\ invoked = <<>>
    /\ pc = [c \in Callers |-> "idle"]
    /\ ret = [c \in Callers |-> "none"]
    /\ forceArg = [c \in Direct |-> FALSE]
    /\ owner = NoOwner
    /\ handles = <<>>
    /\ composite = "none"
    /\ cursor = 0
    /\ woken = FALSE
    /\ polledOnce = FALSE
    /\ sequences = 0
    /\ shared = NoShared
    /\ extReady = FALSE
    /\ sent = 0
    /\ rxPos = 0
    /\ forcePos = 0
    /\ exited = FALSE
    /\ exiting = FALSE
    /\ interrupts = 0
    /\ dropOnWorker = FALSE
    /\ taskDone = FALSE
    /\ guard = GuardIdle
    /\ counted = CountedInit
    /\ dg = DgInit
    /\ seq = SeqInit
    /\ elapsed = ElapsedInit
    /\ bound = BoundInit

\* A direct call site is outside shutdown_all and holds no composite future.
Free(c) == pc[c] \in {"idle", "done", "failed", "abandoned"}

\* A push that inserts the service at the front of the sequence.
PushFront(k) ==
    /\ Len(services) < MaxServices
    /\ pc[Wtt] = "idle"
    /\ pc[Dropper] = "idle"
    /\ \A c \in Direct : Free(c)
    /\ services' = <<k>> \o services
    /\ invoked' = <<0>> \o invoked
    /\ UNCHANGED <<shutting_down, pc, ret, forceArg, seqVars, extReady, chanVars, procVars, utilVars>>

\* A push that shuts the new service down when the shutdown has already begun.
PushShutsLate(k) ==
    /\ Len(services) < MaxServices
    /\ pc[Wtt] = "idle"
    /\ pc[Dropper] = "idle"
    /\ \A c \in Direct : Free(c)
    /\ services' = Append(services, k)
    /\ invoked' = Append(invoked, IF shutting_down THEN 1 ELSE 0)
    /\ UNCHANGED <<shutting_down, pc, ret, forceArg, seqVars, extReady, chanVars, procVars, utilVars>>

\* ShutdownGroup::push: needs &mut self, so no call is in progress, no composite
\* future borrows the group, and the group was not moved or dropped.
Push(k) ==
    /\ Len(services) < MaxServices
    /\ pc[Wtt] = "idle"
    /\ pc[Dropper] = "idle"
    /\ \A c \in Direct : Free(c)
    /\ services' = Append(services, k)
    /\ invoked' = Append(invoked, 0)
    /\ UNCHANGED <<shutting_down, pc, ret, forceArg, seqVars, extReady, chanVars, procVars, utilVars>>

\* An explicit call of shutdown_all(force) begins.  The explicit calls are made by
\* the holder of the group one after another (&mut self, and the returned future
\* borrows the group); wait_to_terminate and Drop run beside them.
Call(c, f) ==
    /\ c \in Direct
    /\ pc[c] = "idle"
    /\ \A d \in Direct : d < c => (Free(d) /\ pc[d] # "idle")
    /\ pc[Wtt] = "idle"
    /\ pc[Dropper] = "idle"
    /\ pc' = [pc EXCEPT ![c] = "cas"]
    /\ forceArg' = [forceArg EXCEPT ![c] = f]
    /\ UNCHANGED <<groupVars, ret, seqVars, extReady, chanVars, procVars, utilVars>>

\* AtomicBool::compare_exchange(expected, new) on a flag holding cur.
CompareExchangeStore(cur, expected, new) == [ok |-> TRUE, val |-> new]

CompareExchange(cur, expected, new) ==
    [ok |-> cur = expected, val |-> IF cur = expected THEN new ELSE cur]

\* A test of the flag followed by a separate store (two steps).
ShutdownAllCasSplit(c) ==
    \/ /\ pc[c] = "cas"
       /\ pc' = [pc EXCEPT ![c] = IF shutting_down THEN "sawTrue" ELSE "sawFalse"]
       /\ UNCHANGED <<groupVars, ret, forceArg, seqVars, extReady, chanVars, procVars, utilVars>>
    \/ /\ pc[c] = "sawFalse"
       /\ shutting_down' = TRUE
       /\ pc' = [pc EXCEPT ![c] = "build"]
       /\ UNCHANGED <<services, invoked, ret, forceArg, seqVars, extReady, chanVars, procVars, utilVars>>
    \/ /\ pc[c] = "sawTrue"
       /\ pc' = [pc EXCEPT ![c] = "failed"]
       /\ ret' = [ret EXCEPT ![c] = "AlreadyShuttingDown"]
       /\ UNCHANGED <<groupVars, forceArg, seqVars, extReady, chanVars, procVars, utilVars>>

\* shutdown_all, first step: the compare_exchange and the early return.
ShutdownAllCas(c) ==
    /\ pc[c] = "cas"
    /\ LET r == CompareExchange(shutting_down, FALSE, TRUE) IN
       /\ shutting_down' = r.val
       /\ pc' = [pc EXCEPT ![c] = IF r.ok THEN "build" ELSE "failed"]
       /\ ret' = [ret EXCEPT ![c] = IF r.ok THEN @ ELSE "AlreadyShuttingDown"]
       \* the early return drops the force argument
       /\ forceArg' = IF r.ok \/ c \notin Direct THEN forceArg
                      ELSE [forceArg EXCEPT ![c] = FALSE]
    /\ UNCHANGED <<services, invoked, seqVars, extReady, chanVars, procVars, utilVars>>

\* Drop passing no force signal to shutdown_all.
ForceSrcDropNone(c) ==
    IF c = Wtt THEN "next"
    ELSE IF c = Dropper THEN "none"
    ELSE IF forceArg[c] THEN "ext" ELSE "none"

\* Drop passing a force signal that waits for a notification.
ForceSrcDropNext(c) ==
    IF c = Wtt THEN "next"
    ELSE IF c = Dropper THEN "next"
    ELSE IF forceArg[c] THEN "ext" ELSE "none"

\* The force future each call site passes to shutdown_all: wait_to_terminate passes
\* one that completes with the next notification, Drop one that is ready at once.
ForceSrc(c) ==
    IF c = Wtt THEN "next"
    ELSE IF c = Dropper THEN "ready"
    ELSE IF forceArg[c] THEN "ext" ELSE "none"

\* force.map(|f| f.shared()): the Shared future built by call site c, not polled
\* yet.  src = "none" stands for force = None.
MakeShared(c) ==
    [src |-> ForceSrc(c),
     id |-> IF ForceSrc(c) = "none" THEN NoOwner ELSE c,
     state |-> "idle", registered |-> FALSE, completions |-> 0]

\* Only the first service gets the force future; the others get None.
ForceHandleMoved(sh, i) ==
    IF i = 1 THEN [some |-> sh.src # "none", sig |-> sh.id]
    ELSE [some |-> FALSE, sig |-> NoOwner]

\* shared.clone().map(|f| f.boxed()): the force argument given to service i.
ForceHandle(sh, i) == [some |-> sh.src # "none", sig |-> sh.id]

\* A shutdown whose body runs up to its first await when it is called.
ShutdownEager(k, fh) ==
    [kind |-> k, some |-> fh.some, sig |-> fh.sig,
     st |-> IF k = "quick" THEN "ok" ELSE IF k = "fail" THEN "err" ELSE "waiting",
     obs |-> "none"]

\* s.shutdown(force): an async fn, so the call only builds the future.
Shutdown(k, fh) ==
    [kind |-> k, some |-> fh.some, sig |-> fh.sig, st |-> "created", obs |-> "none"]

\* shutdown_all, second step: share the force future, call every service's
\* shutdown, join the futures and return the composite future.
ShutdownAllBuild(c) ==
    /\ pc[c] = "build"
    /\ shared' = MakeShared(c)
    /\ handles' = [i \in 1..Len(services) |->
                      Shutdown(services[i], ForceHandle(MakeShared(c), i))]
    /\ invoked' = [i \in 1..Len(services) |-> invoked[i] + 1]
    /\ composite' = "pending"
    /\ owner' = c
    /\ cursor' = 0
    /\ woken' = TRUE
    /\ polledOnce' = FALSE
    /\ sequences' = sequences + 1
    /\ pc' = [pc EXCEPT ![c] = "await"]
    /\ ret' = [ret EXCEPT ![c] = "Ok"]
    /\ UNCHANGED <<shutting_down, services, forceArg, extReady, chanVars, procVars, utilVars>>

\* Whether the future a Shared future wraps would complete when polled now.
EventReady(sh) ==
    CASE sh.src = "ready" -> TRUE
      [] sh.src = "ext" -> extReady
      [] sh.src = "next" -> sent > forcePos
      [] OTHER -> FALSE

\* A handle that polls the wrapped future itself every time, after its completion
\* too: the completed future has nothing more to give.
SharedPollUncached(sh, ready) ==
    IF sh.state = "complete"
    THEN [out |-> "pending", sh |-> sh]
    ELSE IF ready
         THEN [out |-> "fired",
               sh |-> [sh EXCEPT !.state = "complete", !.completions = @ + 1]]
         ELSE [out |-> "pending", sh |-> [sh EXCEPT !.registered = TRUE]]

\* A handle that reports completion without looking at the wrapped future.
SharedPollEager(sh, ready) == [out |-> "fired", sh |-> sh]

\* A handle that drives the wrapped future itself on every poll, whatever the other
\* handles did: no completion is stored.
SharedPollUnshared(sh, ready) ==
    IF ready
    THEN [out |-> "fired",
          sh |-> [sh EXCEPT !.state = "complete", !.completions = @ + 1]]
    ELSE [out |-> "pending", sh |-> [sh EXCEPT !.registered = TRUE]]

\* Shared::poll on one clone: a completed Shared answers from the stored output;
\* otherwise the wrapped future is polled, and on Pending the clone's waker stays
\* registered.
SharedPoll(sh, ready) ==
    IF sh.state = "complete"
    THEN [out |-> "fired", sh |-> sh]
    ELSE IF ready
         THEN [out |-> "fired",
               sh |-> [sh EXCEPT !.state = "complete", !.completions = @ + 1]]
         ELSE [out |-> "pending", sh |-> [sh EXCEPT !.registered = TRUE]]

\* One poll of the future of a service's shutdown.
ServicePoll(h, sh, ready) ==
    CASE h.kind = "quick" -> [h |-> [h EXCEPT !.st = "ok"], sh |-> sh]
      [] h.kind = "fail" -> [h |-> [h EXCEPT !.st = "err"], sh |-> sh]
      [] h.kind = "never" -> [h |-> [h EXCEPT !.st = "waiting"], sh |-> sh]
      [] h.kind = "task" ->
            [h |-> [h EXCEPT !.st = IF taskDone THEN "ok" ELSE "waiting"], sh |-> sh]
      [] OTHER ->
            IF h.some
            THEN LET r == SharedPoll(sh, ready) IN
                 [h |-> [h EXCEPT !.st = IF r.out = "fired" THEN "ok" ELSE "waiting",
                                  !.obs = r.out],
                  sh |-> r.sh]
            ELSE [h |-> [h EXCEPT !.st = "ok"], sh |-> sh]

Resolved(h) == h.st \in {"ok", "err"}

AllResolved == \A i \in 1..Len(handles) : Resolved(handles[i])

\* The completion of the wrapped future never wakes the tasks awaiting the clones.
WakeLost(sh) == FALSE

\* Whether the completion of the wrapped future wakes the task awaiting the
\* composite: some clone polled it and was left pending.
Wake(sh) == sh.registered /\ sh.state = "idle"

\* A Drop of the group that shuts the services down without testing the flag.
DropGroupUnchecked(p) == [p EXCEPT ![Dropper] = "build"]

\* The group is dropped: Drop::drop begins, with force_fut = async {} and the
\* call of shutdown_all.
DropGroup(p) == [p EXCEPT ![Dropper] = "cas"]

\* The future awaited by call site c has completed.  The future of
\* wait_to_terminate owns the group, which is dropped when the future ends.
Finished(p, c) ==
    IF c = Wtt THEN DropGroup([p EXCEPT ![c] = "done"]) ELSE [p EXCEPT ![c] = "done"]

\* Whether a poll that took the Shared future from sh to sh2 completed it: the
\* Shared future then wakes the wakers of all its clones, the one of the clone
\* being polled included (it is recorded before the wrapped future is polled).
Completes(sh, sh2) == sh.state = "idle" /\ sh2.state = "complete"

\* The owner's executor polls the composite future: the task was woken (the first
\* poll of an await needs no wake).
PollStart ==
    /\ composite = "pending"
    /\ owner # NoOwner
    /\ pc[owner] = "await"
    /\ cursor = 0
    /\ woken
    /\ cursor' = 1
    /\ woken' = FALSE
    /\ polledOnce' = TRUE
    /\ UNCHANGED <<groupVars, pc, ret, forceArg, owner, handles, composite,
                   sequences, shared, extReady, chanVars, procVars, utilVars>>

\* A poll that stops at the first service still pending (services awaited one
\* after another).
PollServiceSequential ==
    /\ cursor \in 1..Len(handles)
    /\ IF Resolved(handles[cursor])
       THEN /\ UNCHANGED <<handles, shared, woken>>
            /\ cursor' = cursor + 1
       ELSE LET r == ServicePoll(handles[cursor], shared, EventReady(shared)) IN
            /\ handles' = [handles EXCEPT ![cursor] = r.h]
            /\ shared' = r.sh
            /\ woken' = (woken \/ Completes(shared, r.sh))
            /\ cursor' = IF Resolved(r.h) THEN cursor + 1 ELSE Len(handles) + 1
    /\ UNCHANGED <<groupVars, pc, ret, forceArg, owner, composite,
                   polledOnce, sequences, extReady, chanVars, procVars, utilVars>>

\* JoinAll::poll, one element: a future already done is not polled again.  A
\* poll in which the Shared future completes wakes the task that is polling.
PollService ==
    /\ cursor \in 1..Len(handles)
    /\ IF Resolved(handles[cursor])
       THEN UNCHANGED <<handles, shared, woken>>
       ELSE LET r == ServicePoll(handles[cursor], shared, EventReady(shared)) IN
            /\ handles' = [handles EXCEPT ![cursor] = r.h]
            /\ shared' = r.sh
            /\ woken' = (woken \/ Completes(shared, r.sh))
    /\ cursor' = cursor + 1
    /\ UNCHANGED <<groupVars, pc, ret, forceArg, owner, composite,
                   polledOnce, sequences, extReady, chanVars, procVars, utilVars>>

\* A join that resolves as soon as one service has resolved.
PollEndAny ==
    /\ cursor = Len(handles) + 1
    /\ cursor' = 0
    /\ IF \E i \in 1..Len(handles) : Resolved(handles[i])
       THEN /\ composite' = "resolved"
            /\ pc' = Finished(pc, owner)
       ELSE UNCHANGED <<composite, pc>>
    /\ UNCHANGED <<groupVars, ret, forceArg, owner, handles, woken, polledOnce,
                   sequences, shared, extReady, chanVars, procVars, utilVars>>

\* A join that stops at the first service that failed (try_join_all).
PollEndTry ==
    /\ cursor = Len(handles) + 1
    /\ cursor' = 0
    /\ IF AllResolved \/ \E i \in 1..Len(handles) : handles[i].st = "err"
       THEN /\ composite' = "resolved"
            /\ pc' = Finished(pc, owner)
       ELSE UNCHANGED <<composite, pc>>
    /\ UNCHANGED <<groupVars, ret, forceArg, owner, handles, woken, polledOnce,
                   sequences, shared, extReady, chanVars, procVars, utilVars>>

\* A group that clears its flag when the shutdown has completed.
PollEndReset ==
    /\ cursor = Len(handles) + 1
    /\ cursor' = 0
    /\ IF AllResolved
       THEN /\ composite' = "resolved"
            /\ pc' = Finished(pc, owner)
            /\ shutting_down' = FALSE
       ELSE UNCHANGED <<composite, pc, shutting_down>>
    /\ UNCHANGED <<services, invoked, ret, forceArg, owner, handles, woken,
                   polledOnce, sequences, shared, extReady, chanVars, procVars, utilVars>>

\* A join that reports completion only on the poll after the one in which the
\* last service resolved.
PollEndLate ==
    /\ cursor = Len(handles) + 1
    /\ cursor' = 0
    /\ UNCHANGED <<composite, pc>>
    /\ UNCHANGED <<groupVars, ret, forceArg, owner, handles, woken, polledOnce,
                   sequences, shared, extReady, chanVars, procVars, utilVars>>

\* JoinAll::poll, its end: Ready when every element is done, and then the async
\* block of shutdown_all (and the owner's await, or block_on) completes.
PollEnd ==
    /\ cursor = Len(handles) + 1
    /\ cursor' = 0
    /\ IF AllResolved
       THEN /\ composite' = "resolved"
            /\ pc' = Finished(pc, owner)
       ELSE UNCHANGED <<composite, pc>>
    /\ UNCHANGED <<groupVars, ret, forceArg, owner, handles, woken, polledOnce,
                   sequences, shared, extReady, chanVars, procVars, utilVars>>

\* A composite future that clears the flag when it is dropped unresolved.
AbandonResets(c) ==
    /\ c \in Direct \cup {Wtt}
    /\ \/ /\ pc[c] = "await"
          /\ owner = c
          /\ composite = "pending"
          /\ cursor = 0
          /\ composite' = "dropped"
          /\ shutting_down' = FALSE
       \/ /\ c = Wtt
          /\ pc[c] = "recv"
          /\ UNCHANGED <<composite, shutting_down>>
    /\ pc' = IF c = Wtt THEN DropGroup([pc EXCEPT ![c] = "abandoned"])
              ELSE [pc EXCEPT ![c] = "abandoned"]
    /\ UNCHANGED <<services, invoked, ret, forceArg, owner, handles, cursor, woken,
                   polledOnce, sequences, shared, extReady, chanVars, procVars, utilVars>>

\* The composite future is dropped by its holder before it resolved (between two
\* polls, or never polled), or the future of wait_to_terminate is dropped while it
\* waits for the first notification or for its composite future; the group that
\* future owns is dropped with it.  Drop::drop holds its composite future inside
\* block_on.
Abandon(c) ==
    /\ c \in Direct \cup {Wtt}
    /\ \/ /\ pc[c] = "await"
          /\ owner = c
          /\ composite = "pending"
          /\ cursor = 0
          /\ composite' = "dropped"
       \/ /\ c = Wtt
          /\ pc[c] = "recv"
          /\ UNCHANGED composite
    /\ pc' = IF c = Wtt THEN DropGroup([pc EXCEPT ![c] = "abandoned"])
              ELSE [pc EXCEPT ![c] = "abandoned"]
    /\ UNCHANGED <<groupVars, ret, forceArg, owner, handles, cursor, woken,
                   polledOnce, sequences, shared, extReady, chanVars, procVars, utilVars>>

\* The force future passed by a direct caller becomes ready, before or after the
\* call returned; it matters as long as the call or its composite is in progress.
FireExt ==
    /\ ~extReady
    /\ \E c \in Direct : pc[c] \in {"cas", "build", "await"} /\ forceArg[c]
    /\ extReady' = TRUE
    /\ woken' = (woken \/ (shared.src = "ext" /\ Wake(shared)))
    /\ UNCHANGED <<groupVars, pc, ret, forceArg, owner, handles, composite, cursor,
                   polledOnce, sequences, shared, chanVars, procVars, utilVars>>

\* A notification is published on the broadcast channel (tx.send(())).  A receiver
\* sees only what is sent after it subscribed, so notifications are counted from
\* the subscription of rx, while the future of wait_to_terminate is alive.
SendSignal ==
    /\ sent < MaxSignals
    /\ pc[Wtt] \in {"recv", "subscribe", "cas", "build", "await", "failed"}
    /\ sent' = sent + 1
    /\ woken' = (woken \/ (shared.src = "next" /\ Wake(shared)))
    /\ UNCHANGED <<groupVars, pc, ret, forceArg, owner, handles, composite, cursor,
                   polledOnce, sequences, shared, extReady, rxPos, forcePos, procVars, utilVars>>

\* Whether the channel has a receiver: rx lives from the call of wait_to_terminate
\* to the end of its future, force_rx within that time; the receiver created with
\* the channel is dropped when install_termination_handle returns.
Subscribed == pc[Wtt] \in {"recv", "subscribe", "cas", "build", "await", "failed"}

\* A handler that logs the failed send and goes on.
InterruptIgnoresError ==
    /\ ~exiting
    /\ interrupts' = interrupts + 1
    /\ IF Subscribed
       THEN /\ sent < MaxSignals
            /\ sent' = sent + 1
            /\ woken' = (woken \/ (shared.src = "next" /\ Wake(shared)))
       ELSE /\ interrupts < MaxSignals
            /\ UNCHANGED <<sent, woken>>
    /\ UNCHANGED <<exited, exiting>>
    /\ UNCHANGED <<groupVars, pc, ret, forceArg, owner, handles, composite, cursor,
                   polledOnce, sequences, shared, extReady, rxPos, forcePos, utilVars>>

\* The handler installed by install_termination_handle runs for one interrupt,
\* on the handler thread, one interrupt at a time: t.send(()) publishes a
\* notification when the channel has a receiver; otherwise it fails and the
\* handler goes on to log the error and to exit, the other threads running
\* meanwhile.
Interrupt ==
    /\ ~exiting
    /\ interrupts' = interrupts + 1
    /\ IF Subscribed
       THEN /\ sent < MaxSignals
            /\ sent' = sent + 1
            /\ woken' = (woken \/ (shared.src = "next" /\ Wake(shared)))
            /\ UNCHANGED exiting
       ELSE /\ exiting' = TRUE
            /\ UNCHANGED <<sent, woken>>
    /\ UNCHANGED exited
    /\ UNCHANGED <<groupVars, pc, ret, forceArg, owner, handles, composite, cursor,
                   polledOnce, sequences, shared, extReady, rxPos, forcePos, utilVars>>

\* The handler whose send failed has logged the error and calls
\* std::process::exit(1): the process ends.
ProcessExit ==
    /\ exiting
    /\ ~exited
    /\ exited' = TRUE
    /\ UNCHANGED <<groupVars, pc, ret, forceArg, seqVars, extReady, chanVars,
                   exiting, interrupts, utilVars>>

\* A wait_to_terminate that sets the flag when it is called.
WaitToTerminateEager ==
    /\ pc[Wtt] = "idle"
    /\ pc[Dropper] = "idle"
    /\ rxPos' = sent
    /\ shutting_down' = TRUE
    /\ pc' = [pc EXCEPT ![Wtt] = "recv"]
    /\ UNCHANGED <<services, invoked, ret, forceArg, seqVars, extReady, sent, forcePos, procVars, utilVars>>

\* wait_to_terminate(self, signal): subscribes rx and returns the future.
WaitToTerminate ==
    /\ pc[Wtt] = "idle"
    /\ pc[Dropper] = "idle"
    /\ rxPos' = sent
    /\ pc' = [pc EXCEPT ![Wtt] = "recv"]
    /\ UNCHANGED <<groupVars, ret, forceArg, seqVars, extReady, sent, forcePos, procVars, utilVars>>

\* rx.recv().await returning without any notification.
WttRecvEager ==
    /\ pc[Wtt] = "recv"
    /\ pc' = [pc EXCEPT ![Wtt] = "subscribe"]
    /\ UNCHANGED <<groupVars, ret, forceArg, seqVars, extReady, chanVars, procVars, utilVars>>

\* rx.recv().await returns: a notification was published after rx subscribed.
WttRecv ==
    /\ pc[Wtt] = "recv"
    /\ sent > rxPos
    /\ pc' = [pc EXCEPT ![Wtt] = "subscribe"]
    /\ UNCHANGED <<groupVars, ret, forceArg, seqVars, extReady, chanVars, procVars, utilVars>>

\* A force receiver that also sees the notification that woke rx (a clone of rx as
\* it was subscribed).
WttSubscribeEarly ==
    /\ pc[Wtt] = "subscribe"
    /\ forcePos' = rxPos
    /\ pc' = [pc EXCEPT ![Wtt] = "cas"]
    /\ UNCHANGED <<groupVars, ret, forceArg, seqVars, extReady, sent, rxPos, procVars, utilVars>>

\* force_rx = signal.subscribe() and force_fut; shutdown_all is called next.
WttSubscribe ==
    /\ pc[Wtt] = "subscribe"
    /\ forcePos' = sent
    /\ pc' = [pc EXCEPT ![Wtt] = "cas"]
    /\ UNCHANGED <<groupVars, ret, forceArg, seqVars, extReady, sent, rxPos, procVars, utilVars>>

\* An Err arm that waits for the next notification before it returns.
WttLogWaits ==
    /\ pc[Wtt] = "failed"
    /\ sent > forcePos
    /\ pc' = DropGroup([pc EXCEPT ![Wtt] = "logged"])
    /\ UNCHANGED <<groupVars, ret, forceArg, seqVars, extReady, chanVars, procVars, utilVars>>

\* The Err arm of the match in wait_to_terminate: shutdown_all returned
\* AlreadyShuttingDown, the condition is logged and the future resolves.
WttLog ==
    /\ pc[Wtt] = "failed"
    /\ pc' = DropGroup([pc EXCEPT ![Wtt] = "logged"])
    /\ UNCHANGED <<groupVars, ret, forceArg, seqVars, extReady, chanVars, procVars, utilVars>>

\* The holder of the group drops it; a group moved into wait_to_terminate is
\* dropped with the future that owns it.
DropStart ==
    /\ pc[Dropper] = "idle"
    /\ pc[Wtt] = "idle"
    /\ pc' = DropGroup(pc)
    /\ UNCHANGED <<groupVars, ret, forceArg, seqVars, extReady, chanVars, procVars, utilVars>>

Next ==
    \/ \E k \in Kinds : Push(k)
    \/ \E c \in Direct, f \in BOOLEAN : Call(c, f)
    \/ \E c \in Callers : ShutdownAllCas(c)
    \/ \E c \in Callers : ShutdownAllBuild(c)
    \/ PollStart
    \/ PollService
    \/ PollEnd
    \/ \E c \in Callers : Abandon(c)
    \/ FireExt
    \/ SendSignal
    \/ WaitToTerminate
    \/ WttRecv
    \/ WttSubscribe
    \/ WttLog
    \/ DropStart

Spec == Init /\ [][Next]_vars

\* The program whose signal source is the one of install_termination_handle:
\* notifications are published by the interrupt handler only, and nothing runs
\* once the process has exited.
NextHandler ==
    \/ ~exited /\ \E k \in Kinds : Push(k)
    \/ ~exited /\ \E c \in Direct, f \in BOOLEAN : Call(c, f)
    \/ ~exited /\ \E c \in Callers : ShutdownAllCas(c)
    \/ ~exited /\ \E c \in Callers : ShutdownAllBuild(c)
    \/ ~exited /\ PollStart
    \/ ~exited /\ PollService
    \/ ~exited /\ PollEnd
    \/ ~exited /\ \E c \in Callers : Abandon(c)
    \/ ~exited /\ FireExt
    \/ ~exited /\ Interrupt
    \/ ~exited /\ ProcessExit
    \/ ~exited /\ WaitToTerminate
    \/ ~exited /\ WttRecv
    \/ ~exited /\ WttSubscribe
    \/ ~exited /\ WttLog
    \/ ~exited /\ DropStart

HandlerSpec == Init /\ [][NextHandler]_vars

(***************************************************************************)
(* unwind::drop_guard, around a callback and around Drop::drop of the      *)
(* group.                                                                  *)
(***************************************************************************)

notGuard == <<workerVars, counted, dg, seq, elapsed, bound>>

\* What a callback given to drop_guard may do: return a value or panic.
CallbackOutcomes ==
    [kind : {"ok"}, val : {"a", "b"}] \cup [kind : {"panic"}, val : {"p", "q"}]

\* A wrapper that propagates the failure without any diagnostics.
DropGuardMatchQuiet(panicking, cb) ==
    IF cb.kind = "ok"
    THEN [out |-> [kind |-> "value", val |-> cb.val], backtraces |-> 0]
    ELSE [out |-> [kind |-> "unwind", val |-> cb.val], backtraces |-> 0]

\* The match on catch_unwind's result: Ok(res) is returned; on Err the backtrace
\* is captured and printed if the thread was panicking at entry, and the panic is
\* resumed.
DropGuardMatch(panicking, cb) ==
    IF cb.kind = "ok"
    THEN [out |-> [kind |-> "value", val |-> cb.val], backtraces |-> 0]
    ELSE [out |-> [kind |-> "unwind", val |-> cb.val],
          backtraces |-> IF panicking THEN 1 ELSE 0]

\* drop_guard(f) is entered, by some caller ("fn") or by Drop::drop of the group
\* ("drop"): thread::panicking() is read, and catch_unwind calls f; the closure of
\* Drop::drop begins with shutdown_all.
GuardEnter(pn, who) ==
    /\ guard.pc = "idle"
    /\ pc[Dropper] = "idle"
    /\ guard' = [GuardIdle EXCEPT !.pc = "entered", !.who = who, !.panicking = pn]
    /\ pc' = IF who = "drop" THEN [pc EXCEPT ![Dropper] = "cas"] ELSE pc
    /\ UNCHANGED <<groupVars, ret, forceArg, seqVars, extReady, chanVars, procVars,
                   notGuard>>

\* The callback of some caller ends, with a value or a panic.
CallbackEnds(cb) ==
    /\ guard.pc = "entered"
    /\ guard.who = "fn"
    /\ guard' = [guard EXCEPT !.pc = "caught", !.cb = cb, !.runs = @ + 1]
    /\ UNCHANGED <<mainVars, notGuard>>

\* The closure of Drop::drop returns: shutdown_all was refused, or block_on
\* returned.
DropCallbackReturns ==
    /\ guard.pc = "entered"
    /\ guard.who = "drop"
    /\ pc[Dropper] \in {"done", "failed"}
    /\ guard' = [guard EXCEPT !.pc = "caught", !.runs = @ + 1,
                               !.cb = [kind |-> "ok", val |-> "unit"]]
    /\ UNCHANGED <<mainVars, notGuard>>

\* A service's shutdown panics when block_on polls it: the panic unwinds through
\* the composite future, which is dropped, and out of the closure.
ServicePanics ==
    /\ guard.pc = "entered"
    /\ guard.who = "drop"
    /\ owner = Dropper
    /\ composite = "pending"
    /\ cursor \in 1..Len(handles)
    /\ ~Resolved(handles[cursor])
    /\ composite' = "dropped"
    /\ cursor' = 0
    /\ pc' = [pc EXCEPT ![Dropper] = "panicked"]
    /\ guard' = [guard EXCEPT !.pc = "caught", !.runs = @ + 1,
                               !.cb = [kind |-> "panic", val |-> "service"]]
    /\ UNCHANGED <<groupVars, ret, forceArg, owner, handles, woken, polledOnce,
                   sequences, shared, extReady, chanVars, procVars, notGuard>>

\* drop_guard leaves: it returns the callback's result or resumes its panic.
GuardExit ==
    /\ guard.pc = "caught"
    /\ LET r == DropGuardMatch(guard.panicking, guard.cb) IN
       guard' = [guard EXCEPT
                   !.pc = IF r.out.kind = "value" THEN "returned" ELSE "propagated",
                   !.out = r.out,
                   !.backtraces = @ + r.backtraces]
    /\ UNCHANGED <<mainVars, notGuard>>

NextUnwind ==
    \/ \E k \in {"quick", "slow"} : Push(k)
    \/ \E pn \in BOOLEAN, who \in {"fn", "drop"} : GuardEnter(pn, who)
    \/ \E cb \in CallbackOutcomes : CallbackEnds(cb)
    \/ ShutdownAllCas(Dropper)
    \/ ShutdownAllBuild(Dropper)
    \/ PollStart
    \/ PollService
    \/ PollEnd
    \/ DropCallbackReturns
    \/ ServicePanics
    \/ GuardExit

UnwindSpec == Init /\ [][NextUnwind]_vars

(***************************************************************************)
(* counter::Counted, every value reporting to one shared counter.          *)
(***************************************************************************)

notCounted == <<workerVars, guard, dg, seq, elapsed, bound>>

\* Counter::incr(n) of a counter that adds n to the shared count.
Incr(c, n) == [c EXCEPT !.n = @ + n, !.calls = @ + 1]

\* The Counted values alive.
Live == {i \in CountedIds : counted.items[i].st = "live"}

\* Counted::new(t, counter).
CountedNew(t) ==
    /\ \E i \in CountedIds :
          /\ counted.items[i].st = "none"
          /\ \A j \in CountedIds : j < i => counted.items[j].st # "none"
          /\ counted' = [Incr(counted, 1) EXCEPT
                           !.items[i] = [st |-> "live", inner |-> t],
                           !.last = [op |-> "new", id |-> i, arg |-> t],
                           !.out = "none"]
    /\ UNCHANGED <<mainVars, notCounted>>

\* Drop for Counted.
CountedDrop(i) ==
    /\ i \in Live
    /\ counted' = [Incr(counted, -1) EXCEPT
                     !.items[i].st = "dropped",
                     !.last = [op |-> "drop", id |-> i, arg |-> "none"],
                     !.out = "none"]
    /\ UNCHANGED <<mainVars, notCounted>>

\* An into_inner that hands out the value and skips the counter.
IntoInnerSilent(i) ==
    /\ i \in Live
    /\ counted' = [counted EXCEPT
                     !.items[i].st = "taken",
                     !.last = [op |-> "into_inner", id |-> i, arg |-> "none"],
                     !.out = counted.items[i].inner]
    /\ UNCHANGED <<mainVars, notCounted>>

\* Counted::into_inner: ManuallyDrop keeps Drop from running, incr(-1) is called,
\* and the inner value is read out.
IntoInner(i) ==
    /\ i \in Live
    /\ counted' = [Incr(counted, -1) EXCEPT
                     !.items[i].st = "taken",
                     !.last = [op |-> "into_inner", id |-> i, arg |-> "none"],
                     !.out = counted.items[i].inner]
    /\ UNCHANGED <<mainVars, notCounted>>

\* A replace that ends the life of the old value and begins one for the new.
ReplaceRecount(i, t) ==
    /\ i \in Live
    /\ counted' = [Incr(Incr(counted, -1), 1) EXCEPT
                     !.items[i].inner = t,
                     !.last = [op |-> "replace", id |-> i, arg |-> t],
                     !.out = counted.items[i].inner]
    /\ UNCHANGED <<mainVars, notCounted>>

\* Counted::replace: mem::replace on the inner value.
Replace(i, t) ==
    /\ i \in Live
    /\ counted' = [counted EXCEPT
                     !.items[i].inner = t,
                     !.last = [op |-> "replace", id |-> i, arg |-> t],
                     !.out = counted.items[i].inner]
    /\ UNCHANGED <<mainVars, notCounted>>

\* Counted::counter_mut, and incr(n) called on the counter it hands out.
CounterMutIncr(i, n) ==
    /\ i \in Live
    /\ counted.mcalls < MaxManual
    /\ counted' = [Incr(counted, n) EXCEPT
                     !.manual = @ + n,
                     !.mcalls = @ + 1,
                     !.last = [op |-> "counter_mut", id |-> i, arg |-> "none"],
                     !.out = "none"]
    /\ UNCHANGED <<mainVars, notCounted>>

\* DerefMut::deref_mut, and a write through it: *a = t.
DerefMutWrite(i, t) ==
    /\ i \in Live
    /\ counted' = [counted EXCEPT
                     !.items[i].inner = t,
                     !.last = [op |-> "deref_mut", id |-> i, arg |-> t],
                     !.out = "none"]
    /\ UNCHANGED <<mainVars, notCounted>>

\* AsMut::as_mut, and a write through it: *a.as_mut() = t.
AsMutWrite(i, t) ==
    /\ i \in Live
    /\ counted' = [counted EXCEPT
                     !.items[i].inner = t,
                     !.last = [op |-> "as_mut", id |-> i, arg |-> t],
                     !.out = "none"]
    /\ UNCHANGED <<mainVars, notCounted>>

NextCounted ==
    \/ \E t \in Inners : CountedNew(t)
    \/ \E i \in CountedIds : CountedDrop(i)
    \/ \E i \in CountedIds : IntoInner(i)
    \/ \E i \in CountedIds, t \in Inners : Replace(i, t)
    \/ \E i \in CountedIds, n \in Amounts : CounterMutIncr(i, n)
    \/ \E i \in CountedIds, t \in Inners : DerefMutWrite(i, t)
    \/ \E i \in CountedIds, t \in Inners : AsMutWrite(i, t)

CountedSpec == Init /\ [][NextCounted]_vars

(***************************************************************************)
(* drop_guard::DropGuard.                                                  *)
(***************************************************************************)

notDg == <<workerVars, guard, counted, seq, elapsed, bound>>

\* DropGuard::new(f).
DgNew(g) ==
    /\ dg[g].st = "none"
    /\ \A h \in GuardIds : h < g => dg[h].st # "none"
    /\ dg' = [dg EXCEPT ![g].st = "alive", ![g].f = TRUE]
    /\ UNCHANGED <<mainVars, notDg>>

\* A cancel that leaves the closure in place.
DgCancelKeeps(g) ==
    /\ dg[g].st = "alive"
    /\ dg[g].cancels < MaxCancels
    /\ dg' = [dg EXCEPT ![g].cancels = @ + 1]
    /\ UNCHANGED <<mainVars, notDg>>

\* DropGuard::cancel: self.f = None.
DgCancel(g) ==
    /\ dg[g].st = "alive"
    /\ dg[g].cancels < MaxCancels
    /\ dg' = [dg EXCEPT ![g].f = FALSE, ![g].cancels = @ + 1]
    /\ UNCHANGED <<mainVars, notDg>>

\* DropGuard::is_active: self.f.is_some().
DgIsActive(g) ==
    /\ dg[g].st = "alive"
    /\ dg' = [dg EXCEPT ![g].seen = IF dg[g].f THEN "true" ELSE "false"]
    /\ UNCHANGED <<mainVars, notDg>>

\* Drop for DropGuard: the closure is taken out and called if it is still there.
DgDrop(g) ==
    /\ dg[g].st = "alive"
    /\ dg' = [dg EXCEPT ![g].st = "dropped",
                         ![g].f = FALSE,
                         ![g].runs = IF dg[g].f THEN @ + 1 ELSE @]
    /\ UNCHANGED <<mainVars, notDg>>

NextDg ==
    \/ \E g \in GuardIds : DgNew(g)
    \/ \E g \in GuardIds : DgCancel(g)
    \/ \E g \in GuardIds : DgIsActive(g)
    \/ \E g \in GuardIds : DgDrop(g)

DgSpec == Init /\ [][NextDg]_vars

(***************************************************************************)
(* uniq_id::GlobalSeq.  usize wraps at 2^64, far beyond MaxCalls.          *)
(***************************************************************************)

notSeq == <<workerVars, guard, counted, dg, elapsed, bound>>

\* A thread enters GlobalSeq::next.
SeqBegin(t) ==
    /\ seq.th[t].at = "out"
    /\ Len(seq.rets) + Cardinality({u \in Threads : seq.th[u].at = "in"}) < MaxCalls
    /\ seq' = [seq EXCEPT !.th[t].at = "in", !.th[t].seen = seq.GLOBAL_SEQ]
    /\ UNCHANGED <<mainVars, notSeq>>

\* A next that stores back the value it read on entry plus one (a load and a
\* store instead of one atomic operation).
SeqLoadStore(t) ==
    /\ seq.th[t].at = "in"
    /\ seq' = [seq EXCEPT !.GLOBAL_SEQ = seq.th[t].seen + 1,
                           !.th[t].at = "out",
                           !.th[t].res = seq.th[t].seen,
                           !.rets = Append(@, seq.th[t].seen)]
    /\ UNCHANGED <<mainVars, notSeq>>

\* GLOBAL_SEQ.fetch_add(1, SeqCst): one atomic step that adds 1 and returns the
\* value held before.
SeqFetchAdd(t) ==
    /\ seq.th[t].at = "in"
    /\ seq' = [seq EXCEPT !.GLOBAL_SEQ = @ + 1,
                           !.th[t].at = "out",
                           !.th[t].res = seq.GLOBAL_SEQ,
                           !.rets = Append(@, seq.GLOBAL_SEQ)]
    /\ UNCHANGED <<mainVars, notSeq>>

NextSeq ==
    \/ \E t \in Threads : SeqBegin(t)
    \/ \E t \in Threads : SeqFetchAdd(t)

GlobalSeqSpec == Init /\ [][NextSeq]_vars

(***************************************************************************)
(* futures::ElapsedFuture around an inner future that is Pending a number  *)
(* of times and Ready from then on.                                        *)
(***************************************************************************)

notElapsed == <<workerVars, guard, counted, dg, seq, bound>>

\* ElapsedFuture::new(inner, inspector).
ElapsedNew(k, out) ==
    /\ elapsed.st = "none"
    /\ elapsed' = [elapsed EXCEPT !.st = "created", !.pend = k, !.output = out,
                                   !.inspector = TRUE]
    /\ UNCHANGED <<mainVars, notElapsed>>

\* Time passes between two polls.
ElapsedTick ==
    /\ elapsed.st = "created"
    /\ elapsed.now < MaxTime
    /\ elapsed' = [elapsed EXCEPT !.now = @ + 1]
    /\ UNCHANGED <<mainVars, notElapsed>>

\* Future::poll of the inner future.
InnerPoll(e) == IF e.pend = 0 THEN "Ready" ELSE "Pending"

\* A poll that leaves the inspector in place after calling it.
ElapsedPollKeeps(d) ==
    /\ elapsed.st = "created"
    /\ elapsed.polls < MaxPolls
    /\ elapsed.now + d <= MaxTime
    /\ LET start == IF elapsed.start = NoInstant /\ elapsed.inspector
                    THEN elapsed.now ELSE elapsed.start
           res == InnerPoll(elapsed)
           busy == elapsed.busy + d
           now == elapsed.now + d
           call == (res = "Ready" /\ elapsed.inspector)
       IN elapsed' = [elapsed EXCEPT
            !.start = start, !.busy = busy, !.now = now,
            !.pend = IF @ = 0 THEN 0 ELSE @ - 1,
            !.polls = @ + 1,
            !.calls = IF call THEN @ + 1 ELSE @,
            !.args = IF call
                     THEN [output |-> elapsed.output,
                           total |-> IF start = NoInstant THEN 0 ELSE now - start,
                           busy |-> busy]
                     ELSE @,
            !.last = res,
            !.lastOut = IF res = "Ready" THEN elapsed.output ELSE "none"]
    /\ UNCHANGED <<mainVars, notElapsed>>

\* ElapsedFuture::poll, the inner poll taking d ticks: start is set at the first
\* poll, the inner future is polled and the time added to busy; on Ready the
\* inspector is taken out and called with the output, the total and the busy
\* time; the inner result is returned.
ElapsedPoll(d) ==
    /\ elapsed.st = "created"
    /\ elapsed.polls < MaxPolls
    /\ elapsed.now + d <= MaxTime
    /\ LET start == IF elapsed.start = NoInstant /\ elapsed.inspector
                    THEN elapsed.now ELSE elapsed.start
           res == InnerPoll(elapsed)
           busy == elapsed.busy + d
           now == elapsed.now + d
           call == (res = "Ready" /\ elapsed.inspector)
       IN elapsed' = [elapsed EXCEPT
            !.start = start, !.busy = busy, !.now = now,
            !.pend = IF @ = 0 THEN 0 ELSE @ - 1,
            !.polls = @ + 1,
            !.inspector = IF call THEN FALSE ELSE @,
            !.calls = IF call THEN @ + 1 ELSE @,
            !.args = IF call
                     THEN [output |-> elapsed.output,
                           total |-> IF start = NoInstant THEN 0 ELSE now - start,
                           busy |-> busy]
                     ELSE @,
            !.last = res,
            !.lastOut = IF res = "Ready" THEN elapsed.output ELSE "none"]
    /\ UNCHANGED <<mainVars, notElapsed>>

NextElapsed ==
    \/ \E k \in 0..MaxPending, out \in {"u", "v"} : ElapsedNew(k, out)
    \/ ElapsedTick
    \/ \E d \in 0..1 : ElapsedPoll(d)

ElapsedSpec == Init /\ [][NextElapsed]_vars

(***************************************************************************)
(* string_util::prefix_right_bound.                                        *)
(***************************************************************************)

notBound == <<workerVars, guard, counted, dg, seq, elapsed>>

\* char::MAX, and the surrogate code points, which are no chars.
CharMax == 1114111
SurrogateLo == 55296
SurrogateHi == 57343

NoChar == -1

\* char::from_u32: None above char::MAX and for a surrogate code point.
FromU32(x) ==
    IF x > CharMax \/ x \in SurrogateLo..SurrogateHi THEN NoChar ELSE x

\* The chars of the prefixes: a, b, U+D7FF, U+E000 and char::MAX.
Alphabet == {97, 98, 55295, 57344, CharMax}

Strings == UNION {[1..n -> Alphabet] : n \in 0..MaxLen}

\* prefix_right_bound(p): None for the empty string; otherwise the last
\* position i whose char plus one is a char, and the chars before i followed by
\* that char plus one; None if there is no such position.
PrefixRightBound(p) ==
    IF p = <<>> THEN None
    ELSE LET I == {i \in 1..Len(p) : FromU32(p[i] + 1) # NoChar}
         IN IF I = {} THEN None
            ELSE LET i == CHOOSE j \in I : \A k \in I : k <= j
                 IN Some(Append(SubSeq(p, 1, i - 1), FromU32(p[i] + 1)))

\* The order of str: byte-wise over UTF-8, which is the order of the code
\* points, a proper prefix being less.
StrLess(s, t) ==
    \E i \in 1..(Len(t)) :
        /\ \A k \in 1..(i - 1) : k <= Len(s) /\ s[k] = t[k]
        /\ \/ Len(s) = i - 1
           \/ Len(s) >= i /\ s[i] < t[i]

\* str::starts_with.
StartsWith(s, p) ==
    /\ Len(p) <= Len(s)
    /\ \A k \in 1..Len(p) : s[k] = p[k]

\* The caller has a prefix p.
BoundChoose(p) ==
    /\ bound.pc \in {"idle", "returned"}
    /\ bound' = [pc |-> "chosen", p |-> p, out |-> None]
    /\ UNCHANGED <<mainVars, notBound>>

\* prefix_right_bound(p) returns.
PrefixRightBoundCall ==
    /\ bound.pc = "chosen"
    /\ bound' = [bound EXCEPT !.pc = "returned", !.out = PrefixRightBound(bound.p)]
    /\ UNCHANGED <<mainVars, notBound>>

NextBound ==
    \/ \E p \in Strings : BoundChoose(p)
    \/ PrefixRightBoundCall

BoundSpec == Init /\ [][NextBound]_vars

(***************************************************************************)
(* Drop::drop of the group on a runtime worker thread.                     *)
(***************************************************************************)

\* Drop::drop is called on the worker thread of the runtime.
DropStartOnWorker ==
    /\ pc[Dropper] = "idle"
    /\ pc[Wtt] = "idle"
    /\ pc' = DropGroup(pc)
    /\ dropOnWorker' = TRUE
    /\ UNCHANGED <<groupVars, ret, forceArg, seqVars, extReady, chanVars, procVars,
                   taskDone, guard, counted, dg, seq, elapsed, bound>>

\* A Drop that hands its shutdown to the runtime and lets the thread go on.
WorkerBlockedNever == FALSE

\* The worker thread is inside Drop::drop: block_on returns only when the
\* composite future has resolved, and until then the thread runs nothing else.
WorkerBlocked == dropOnWorker /\ pc[Dropper] \in {"cas", "build", "await"}

\* The worker thread runs the task that "task" services wait for, and the task
\* wakes them.
RunTask ==
    /\ ~taskDone
    /\ ~WorkerBlocked
    /\ taskDone' = TRUE
    /\ woken' = (woken \/ \E i \in 1..Len(handles) :
                              handles[i].kind = "task" /\ handles[i].st = "waiting")
    /\ UNCHANGED <<groupVars, pc, ret, forceArg, owner, handles, composite, cursor,
                   polledOnce, sequences, shared, extReady, chanVars, procVars,
                   dropOnWorker, guard, counted, dg, seq, elapsed, bound>>

\* A group dropped on a runtime with one worker thread, or on a thread of its own.
NextWorker ==
    \/ \E k \in WorkerKinds : Push(k)
    \/ DropStart
    \/ DropStartOnWorker
    \/ ShutdownAllCas(Dropper)
    \/ ShutdownAllBuild(Dropper)
    \/ PollStart
    \/ PollService
    \/ PollEnd
    \/ RunTask

\* block_on keeps polling the composite, and a worker that is not blocked runs its
\* tasks.
WorkerSpec ==
    /\ Init
    /\ [][NextWorker]_vars
    /\ WF_vars(PollStart)
    /\ WF_vars(PollService)
    /\ WF_vars(PollEnd)
    /\ WF_vars(RunTask)

\* The executor keeps polling a composite that is awaited and woken.
LiveSpec ==
    /\ Init
    /\ [][Next]_vars
    /\ WF_vars(PollStart)
    /\ WF_vars(PollService)
    /\ WF_vars(PollEnd)

(***************************************************************************)
(* Properties.                                                             *)
(***************************************************************************)

\* Call sites that won the compare_exchange, and those that were refused.
Winners == {c \in Callers : pc[c] = "build" \/ ret[c] = "Ok"}
Losers == {c \in Callers : ret[c] = "AlreadyShuttingDown"}

\* C1: once a call of shutdown_all has set the flag, a call site (direct,
\* wait_to_terminate or Drop) that executes its compare_exchange gets
\* AlreadyShuttingDown and leaves the flag, the service list, the invocation counts
\* and the service futures unchanged; no service's shutdown is ever called twice.
C1_LaterCallsRefused ==
    [][/\ \A i \in 1..Len(invoked') : invoked'[i] <= 1
       /\ \A c \in Callers :
            (shutting_down /\ pc[c] = "cas" /\ pc'[c] # "cas") =>
                /\ pc'[c] = "failed"
                /\ ret'[c] = "AlreadyShuttingDown"
                /\ shutting_down'
                /\ services' = services
                /\ invoked' = invoked
                /\ handles' = handles
                /\ sequences' = sequences]_vars

\* A first call resolved after shutting down one service or more, and both
\* wait_to_terminate and Drop were refused afterwards.
C1_Witness ==
    /\ composite = "resolved"
    /\ owner \in Direct
    /\ Len(handles) >= 1
    /\ ret[Wtt] = "AlreadyShuttingDown"
    /\ ret[Dropper] = "AlreadyShuttingDown"

\* C2: in every interleaving of the call sites at most one wins the
\* compare_exchange; a call site is refused only when another one won, the flag is
\* set exactly when there is a winner, and nobody both wins and is refused.
C2_ExactlyOneWinner ==
    /\ Cardinality(Winners) <= 1
    /\ Winners \cap Losers = {}
    /\ (Losers # {}) => (Cardinality(Winners) = 1)
    /\ shutting_down <=> (Cardinality(Winners) = 1)
    /\ \A c \in Callers : pc[c] \in {"await", "done"} => ret[c] = "Ok"

\* Two call sites were refused while the winner is still inside shutdown_all.
C2_Witness ==
    /\ Cardinality(Losers) = 2
    /\ \E c \in Callers : pc[c] = "build"

\* C3: the flag starts false and no step resets it; a shutdown sequence is built
\* only with the flag set, and at most one is ever built.
C3_FlagMonotonic ==
    /\ shutting_down = FALSE
    /\ [][/\ shutting_down => shutting_down'
          /\ sequences' <= 1
          /\ (sequences' # sequences) => (shutting_down /\ shutting_down')]_vars

\* After pushes, a completed shutdown sequence, and refused calls by
\* wait_to_terminate and Drop, the flag is still set.
C3_Witness ==
    /\ shutting_down
    /\ sequences = 1
    /\ Len(services) >= 1
    /\ composite = "resolved"
    /\ pc[Wtt] = "logged"
    /\ pc[Dropper] = "failed"

\* C4: the call that set the flag obtained the composite; while the composite is
\* pending it holds one future per registered service, each service invoked exactly
\* once; and it is resolved only if every one of these futures resolved (so never
\* with a service that never returns).
C4_ResolvesAfterAll ==
    /\ shutting_down => (\E c \in Callers : pc[c] = "build" \/ ret[c] = "Ok")
    /\ (composite = "pending") =>
          /\ Len(handles) = Len(services)
          /\ \A i \in 1..Len(services) :
                handles[i].kind = services[i] /\ invoked[i] = 1
    /\ (composite = "resolved") =>
          /\ Len(handles) <= Len(services)
          /\ \A i \in 1..Len(handles) :
                /\ invoked[i] = 1
                /\ Resolved(handles[i])
                /\ handles[i].kind # "never"

\* A composite over two services resolved, one of them having waited for force.
C4_Witness ==
    /\ composite = "resolved"
    /\ Len(handles) = 2
    /\ \E i \in 1..2 : handles[i].kind = "slow" /\ handles[i].obs = "fired"
    /\ \E i \in 1..2 : handles[i].kind # "slow"

\* C5: under fair polling, a composite that is being polled and whose service
\* futures have all resolved eventually resolves; and a composite over zero
\* services that has been polled once is no longer pending, whatever the force
\* signal.
C5_ResolvesOnceAllResolved ==
    /\ (composite = "pending" /\ cursor # 0 /\ AllResolved) ~> (composite = "resolved")
    /\ [](Len(handles) = 0 /\ polledOnce /\ cursor = 0 => composite # "pending")

\* shutdown_all(None) on an empty group resolved although no signal ever fired.
C5_Witness ==
    /\ composite = "resolved"
    /\ Len(handles) = 0
    /\ Len(services) = 0
    /\ owner \in Direct
    /\ shared.src = "none"
    /\ ~extReady
    /\ sent = 0

\* C6: every registered service's shutdown has been called when the composite
\* exists, and the first poll of the composite polls every service future: a
\* future is still unstarted only during the first poll, at or after the cursor.
C6_AllStartedBeforeWaiting ==
    /\ (composite = "pending") =>
          /\ Len(handles) = Len(services)
          /\ \A i \in 1..Len(services) : invoked[i] >= 1
    /\ (composite # "none" /\ polledOnce) =>
          \A i \in 1..Len(handles) :
             (handles[i].st = "created") => (cursor # 0 /\ i >= cursor)

\* After a complete poll the first service is still pending and the second one has
\* nevertheless run to completion.
C6_Witness ==
    /\ composite = "pending"
    /\ polledOnce
    /\ cursor = 0
    /\ Len(handles) = 2
    /\ handles[1].st = "waiting"
    /\ handles[2].st = "ok"

\* C7: with force = None every service is given None; with Some(force) every
\* service is given Some handle, and all handles are clones of the one Shared
\* future built by that call.
C7_SameForceForAll ==
    (composite # "none") =>
        \A i \in 1..Len(handles) :
            /\ handles[i].some = (ForceSrc(owner) # "none")
            /\ handles[i].some => (handles[i].sig = owner /\ shared.id = owner)
            /\ ~handles[i].some => (handles[i].sig = NoOwner /\ shared.src = "none")

\* Two services were given handles of the same force signal.
C7_Witness ==
    /\ composite = "pending"
    /\ Len(handles) = 2
    /\ handles[1].some /\ handles[2].some
    /\ handles[1].sig = handles[2].sig
    /\ shared.src = "ext"

\* C8: a service has observed the force signal as fired only if the wrapped force
\* future has completed (and so its event has happened), and a service that
\* awaits its handle has resolved only after observing it fired.
C8_NoEarlyFiring ==
    \A i \in 1..Len(handles) :
        /\ (handles[i].obs = "fired") =>
              (shared.state = "complete" /\ shared.completions >= 1 /\ EventReady(shared))
        /\ (handles[i].kind = "slow" /\ handles[i].some /\ handles[i].st = "ok") =>
              (handles[i].obs = "fired" /\ EventReady(shared))

\* A service blocked on its handle, and resolved once the force future of a direct
\* call or the second notification completed.
C8_Witness ==
    /\ shared.src \in {"ext", "next"}
    /\ shared.registered
    /\ \E i \in 1..Len(handles) : handles[i].st = "ok" /\ handles[i].obs = "fired"

\* The services that await a handle of the force signal.
Awaiters == {i \in 1..Len(handles) : handles[i].kind = "slow" /\ handles[i].some}

\* C9: under fair polling, once the event behind the force signal has happened,
\* every service that awaits a handle of it observes the firing and resolves,
\* unless the composite future is dropped first; this includes a service first
\* polled after the event.
C9_FiringReachesAwaiters ==
    (composite = "pending" /\ EventReady(shared))
    ~> (\/ composite = "dropped"
        \/ \A i \in Awaiters : handles[i].st = "ok" /\ handles[i].obs = "fired")

\* Two services awaiting handles of a force signal that fired after a handle had
\* been left pending: the task was woken and both observed the firing.
C9_Witness ==
    /\ Len(handles) = 2
    /\ shared.src \in {"ext", "next"}
    /\ shared.registered
    /\ handles[1].kind = "slow" /\ handles[1].obs = "fired"
    /\ handles[2].kind = "slow" /\ handles[2].obs = "fired"

\* Some holder of a handle has observed the force signal as fired.
SomeObservedFired == \E j \in 1..Len(handles) : handles[j].obs = "fired"

\* C10: once some holder has observed the signal as fired, every poll of a handle
\* by a service awaiting it observes fired; and the completed state of the Shared
\* future is never left.
C10_FiredIsMonotonic ==
    [][/\ \A i \in 1..Len(handles) :
            (/\ SomeObservedFired
             /\ cursor = i /\ cursor' = i + 1
             /\ ~Resolved(handles[i])
             /\ handles[i].kind = "slow" /\ handles[i].some)
            => (handles'[i].obs = "fired")
       /\ (shared.state = "complete" /\ sequences' = sequences)
            => (shared'.state = "complete")]_vars

\* The second holder polled its handle after the first one had observed the firing.
C10_Witness ==
    /\ Len(handles) = 2
    /\ cursor = 0
    /\ handles[1].obs = "fired"
    /\ handles[2].obs = "fired"
    /\ shared.completions = 1

\* C11: whether zero, one or several services await handles of the force signal,
\* the wrapped force future completes at most once, exactly once when some holder
\* observed the firing; a holder that observed the firing has resolved and its
\* future is never polled again, so it observes that completion once.
C11_ForceDrivenOnce ==
    /\ [](/\ shared.completions <= 1
          /\ (shared.state = "complete") <=> (shared.completions = 1)
          /\ SomeObservedFired => (shared.completions = 1)
          /\ \A i \in 1..Len(handles) :
                (handles[i].obs = "fired") => (handles[i].st = "ok"))
    /\ [][\A i \in 1..Len(handles) :
            (handles[i].obs = "fired" /\ sequences' = sequences)
            => (handles'[i] = handles[i])]_vars

\* Two services awaited handles of the force signal of wait_to_terminate and both
\* observed its single completion, the first one after having been left pending.
C11_Witness ==
    /\ Cardinality(Awaiters) = 2
    /\ shared.src = "next"
    /\ shared.registered
    /\ shared.completions = 1
    /\ \A i \in Awaiters : handles[i].obs = "fired" /\ handles[i].st = "ok"
    /\ composite = "resolved"

\* C12: when Drop is the call that sets the flag (no shutdown_all came before it),
\* every registered service's shutdown is invoked once with Some handle of a force
\* signal that is ready at its first poll, so no service awaiting it is ever left
\* pending; Drop returns only once every service future has resolved, and it
\* returns without shutting down only if another call had set the flag.
C12_DropShutsDownAll ==
    /\ (owner = Dropper) =>
          /\ pc[Dropper] \in {"await", "done"}
          /\ composite \in {"pending", "resolved"}
          /\ shared.src = "ready" /\ EventReady(shared)
          /\ Len(handles) = Len(services)
          /\ \A i \in 1..Len(handles) :
                /\ invoked[i] = 1
                /\ handles[i].some /\ handles[i].sig = Dropper
                /\ (handles[i].kind = "slow") => (handles[i].st \in {"created", "ok"})
    /\ (pc[Dropper] = "done") =>
          (owner = Dropper /\ composite = "resolved" /\ AllResolved)
    /\ (pc[Dropper] = "failed") =>
          (\E c \in Callers \ {Dropper} : c \in Winners)

\* Drop shut down two services on its own, one of them awaiting the force signal,
\* and returned.
C12_Witness ==
    /\ pc[Dropper] = "done"
    /\ owner = Dropper
    /\ \A c \in Callers \ {Dropper} : ret[c] = "none"
    /\ Len(handles) = 2
    /\ \E i \in 1..2 : handles[i].kind = "slow" /\ handles[i].obs = "fired"

\* C13: under fair polling, when Drop is the call that sets the flag and every
\* registered service either returns at once or resolves as soon as its force
\* handle fires, Drop returns; with a service that never resolves it does not.
C13_DropTerminates ==
    /\ (/\ owner = Dropper
        /\ composite = "pending"
        /\ \A i \in 1..Len(handles) : handles[i].kind # "never")
       ~> (pc[Dropper] = "done")
    /\ []((owner = Dropper /\ \E i \in 1..Len(handles) : handles[i].kind = "never")
            => (pc[Dropper] = "await"))

\* Drop returned after shutting down a service that awaits force and one that
\* returns at once, no notification and no external force ever having fired.
C13_Witness ==
    /\ pc[Dropper] = "done"
    /\ owner = Dropper
    /\ Len(handles) = 2
    /\ handles[1].kind = "slow" /\ handles[1].st = "ok"
    /\ handles[2].kind = "quick" /\ handles[2].st = "ok"
    /\ sent = 0 /\ ~extReady

\* C14: until a notification has been published after rx subscribed, the future of
\* wait_to_terminate is suspended in rx.recv (or was dropped there): it has not
\* called shutdown_all, owns no shutdown sequence, and, when no other call site
\* has started, the flag is false and no service has been invoked.  It resolves
\* only after that notification and after the shutdown it started has resolved, or
\* after finding the group already shutting down.
C14_SuspendedUntilFirstSignal ==
    /\ (pc[Wtt] # "idle" /\ sent = rxPos) =>
          /\ pc[Wtt] \in {"recv", "abandoned"}
          /\ ret[Wtt] = "none"
          /\ owner # Wtt
          /\ (\A c \in Callers \ {Wtt} : pc[c] = "idle") =>
                (~shutting_down /\ \A i \in 1..Len(invoked) : invoked[i] = 0)
    /\ (pc[Wtt] = "done") =>
          /\ sent > rxPos
          /\ owner = Wtt /\ composite = "resolved" /\ AllResolved
          /\ \A i \in 1..Len(services) : invoked[i] = 1
    /\ (pc[Wtt] = "logged") => (sent > rxPos /\ shutting_down /\ owner # Wtt)

\* wait_to_terminate resolved after one notification, having shut down a service;
\* the group was dropped with its future.
C14_Witness ==
    /\ pc[Wtt] = "done"
    /\ sent = 1
    /\ Len(handles) >= 1
    /\ \A c \in Direct : pc[c] = "idle"
    /\ pc[Dropper] = "failed"

\* C15: when wait_to_terminate starts the shutdown, every registered service is
\* invoked once with Some handle of one force signal tied to a notification
\* published after the one that woke it: that signal has not fired while no later
\* notification was published, and as long as a service awaiting it is among the
\* services, neither that service nor wait_to_terminate has resolved.
C15_ForceIsNextSignal ==
    (owner = Wtt) =>
        /\ sent > rxPos
        /\ forcePos > rxPos
        /\ shared.src = "next" /\ shared.id = Wtt
        /\ Len(handles) = Len(services)
        /\ \A i \in 1..Len(handles) :
              invoked[i] = 1 /\ handles[i].some /\ handles[i].sig = Wtt
        /\ (sent <= forcePos) =>
              /\ ~EventReady(shared)
              /\ shared.state = "idle"
              /\ \A i \in Awaiters : handles[i].st \in {"created", "waiting"}
              /\ (Awaiters # {}) => (pc[Wtt] # "done" /\ composite # "resolved")
        /\ (sent = rxPos + 1 /\ Awaiters # {}) => (composite # "resolved")

\* After the first notification both services were invoked and polled, and both
\* are blocked on the force signal: wait_to_terminate has not resolved.
C15_Witness ==
    /\ owner = Wtt
    /\ pc[Wtt] = "await"
    /\ sent = 1
    /\ polledOnce /\ cursor = 0
    /\ Cardinality(Awaiters) = 2
    /\ \A i \in Awaiters : handles[i].st = "waiting" /\ invoked[i] = 1

\* C16, as claimed: once wait_to_terminate has started the shutdown and a second
\* notification has been published after the first one, the event behind the
\* force signal has happened.
C16_SecondSignalFiresForce ==
    (owner = Wtt /\ composite = "pending" /\ sent >= rxPos + 2) => EventReady(shared)

\* C16, as the code behaves: under fair polling, a notification published after
\* force_rx subscribed fires the force signal, and wait_to_terminate over services
\* that return at once or await force then resolves, unless its future is dropped.
C16_LaterSignalResolves ==
    (/\ owner = Wtt
     /\ composite = "pending"
     /\ sent > forcePos
     /\ \A i \in 1..Len(handles) : handles[i].kind # "never")
    ~> (pc[Wtt] = "done" \/ composite = "dropped")

\* Two notifications were published before force_rx subscribed: the services are
\* blocked on a force signal that neither of them fires.
C16_Witness ==
    /\ owner = Wtt
    /\ pc[Wtt] = "await"
    /\ sent = rxPos + 2
    /\ forcePos = sent
    /\ polledOnce /\ cursor = 0 /\ ~woken
    /\ Awaiters # {}
    /\ \A i \in Awaiters : handles[i].st = "waiting"

\* C17: when wait_to_terminate finds the flag already set, shutdown_all returns
\* AlreadyShuttingDown to it: it starts no shutdown sequence and invokes no service
\* (each service is still invoked at most once, by the call that set the flag),
\* and it can resolve at once, whatever the number of notifications; having
\* resolved that way it holds no composite future.
C17_AlreadyShuttingDownLogged ==
    /\ (pc[Wtt] = "failed") =>
          /\ ret[Wtt] = "AlreadyShuttingDown"
          /\ shutting_down
          /\ owner # Wtt
          /\ \E c \in Callers \ {Wtt} : c \in Winners
          /\ ENABLED WttLog
    /\ (pc[Wtt] = "logged") =>
          /\ ret[Wtt] = "AlreadyShuttingDown"
          /\ shutting_down
          /\ owner # Wtt
          /\ sequences <= 1
          /\ \A i \in 1..Len(invoked) : invoked[i] <= 1
          /\ \A i \in 1..Len(handles) : handles[i].sig # Wtt

\* An earlier call set the flag and its composite future was dropped with a service
\* still blocked; wait_to_terminate then resolved after a single notification.
C17_Witness ==
    /\ pc[Wtt] = "logged"
    /\ sent = 1 /\ forcePos = 1
    /\ owner \in Direct
    /\ composite = "dropped"
    /\ \E i \in 1..Len(handles) : handles[i].st = "waiting"

\* The services whose shutdown resolved with an error.
Failed == {i \in 1..Len(handles) : handles[i].st = "err"}

\* C18: a service that failed neither skips nor aborts another one: after a
\* complete poll no service future is unstarted, a composite holding a failed
\* service is resolved only when every other service has resolved too, and with
\* every service resolved it is resolved, its owner (a direct call,
\* wait_to_terminate or Drop) completing in the same way as without any failure.
C18_ErrorsAreSwallowed ==
    /\ (composite # "none" /\ polledOnce /\ cursor = 0) =>
          \A i \in 1..Len(handles) : handles[i].st # "created"
    /\ (composite = "resolved" /\ Failed # {}) =>
          /\ \A i \in 1..Len(handles) : Resolved(handles[i])
          /\ pc[owner] = "done" /\ ret[owner] = "Ok"
    /\ (composite = "pending" /\ polledOnce /\ cursor = 0) => ~AllResolved

\* The first service failed at the first poll; the second one was still awaited,
\* resolved with the second notification, and wait_to_terminate then resolved.
C18_Witness ==
    /\ owner = Wtt
    /\ pc[Wtt] = "done"
    /\ Len(handles) = 2
    /\ Failed = {1}
    /\ handles[2].kind = "slow" /\ handles[2].st = "ok"
    /\ shared.registered

\* C19: a new group is empty with the flag false; the service sequence changes
\* only by a push, which appends one service behind the earlier ones, kept in
\* their order, and changes nothing else: the flag, the call sites, the service
\* futures and the invocation counts of the earlier services are as before, and
\* the new service has not been invoked.
C19_PushAppends ==
    /\ services = <<>> /\ shutting_down = FALSE
    /\ [][(services' # services) =>
            /\ \E k \in Kinds : services' = Append(services, k)
            /\ SubSeq(services', 1, Len(services)) = services
            /\ invoked' = Append(invoked, 0)
            /\ shutting_down' = shutting_down
            /\ UNCHANGED <<pc, ret, forceArg, seqVars, extReady, chanVars>>]_vars

\* Two different services were pushed after a first shutdown_all had completed:
\* they are in insertion order, not invoked, and the flag is still set.
C19_Witness ==
    /\ services = <<"slow", "fail">>
    /\ invoked = <<0, 0>>
    /\ shutting_down
    /\ composite = "resolved"
    /\ Len(handles) = 0

\* C20: with the handler of install_termination_handle as the only publisher, each
\* interrupt has one of two outcomes: a notification is published while the
\* channel has a receiver, and every subscribed receiver (rx, and force_rx once
\* subscribed) then has it to read; or the channel has no receiver, nothing is
\* published and the handler goes to exit the process: it handles no further
\* interrupt, and its next step is the exit.  Every interrupt but the one the
\* handler is exiting for has been published, and after the exit nothing happens
\* any more.
C20_InterruptPublishedOrExit ==
    /\ [](/\ interrupts = sent + (IF exiting THEN 1 ELSE 0)
          /\ exited => exiting)
    /\ [][/\ exited => (vars' = vars)
          /\ exiting => (interrupts' = interrupts /\ sent' = sent /\ exiting')
          /\ (exited' # exited) => (exiting /\ exited')
          /\ (interrupts' # interrupts) =>
                /\ interrupts' = interrupts + 1
                /\ \/ /\ Subscribed
                      /\ sent' = sent + 1 /\ ~exiting' /\ ~exited'
                      /\ sent' > rxPos
                      /\ (pc[Wtt] \in {"cas", "build", "await"}) => (sent' > forcePos)
                   \/ /\ ~Subscribed
                      /\ sent' = sent /\ exiting']_vars

\* A first interrupt was published and started the shutdown; wait_to_terminate
\* resolved and its receivers were dropped; the next interrupt ended the process.
C20_Witness ==
    /\ exited
    /\ sent = 1 /\ interrupts = 2
    /\ pc[Wtt] = "done"
    /\ Len(handles) >= 1

\* C21: Drop returns only with the composite resolved, and the thread it runs on
\* runs nothing else meanwhile.  When Drop runs on the worker thread while a
\* registered service waits for a task that this worker has not run yet, the task
\* never runs and Drop never returns; on a thread of its own, under fair
\* scheduling, Drop returns.
C21_DropBlocksWorker ==
    /\ []((pc[Dropper] = "done") => (composite = "resolved" /\ AllResolved))
    /\ []((/\ dropOnWorker
           /\ pc[Dropper] \in {"cas", "build", "await"}
           /\ ~taskDone
           /\ \E i \in 1..Len(services) : services[i] = "task")
          => [](pc[Dropper] # "done" /\ ~taskDone))
    /\ (~dropOnWorker /\ pc[Dropper] = "await") ~> (pc[Dropper] = "done")

\* Drop on the worker thread polled a service that waits for a task of that
\* worker: it is blocked with the service pending, nothing left to wake it.
C21_Witness ==
    /\ dropOnWorker
    /\ pc[Dropper] = "await"
    /\ polledOnce /\ cursor = 0 /\ ~woken
    /\ ~taskDone
    /\ \E i \in 1..Len(handles) : handles[i].kind = "task" /\ handles[i].st = "waiting"

\* C22: drop_guard runs its callback once, whether or not the thread was panicking
\* at entry.  A callback that returned has its value returned, without any
\* backtrace; the panic of a callback that panicked is resumed towards the caller,
\* after exactly one backtrace if the thread was panicking at entry and none
\* otherwise.  Drop::drop of the group runs shutdown_all and block_on inside the
\* wrapper: a shutdown that completed lets it return, a service that panicked is
\* propagated.
C22_DropGuardOnce ==
    /\ (guard.pc \in {"idle", "entered"}) => (guard.runs = 0 /\ guard.backtraces = 0)
    /\ (guard.pc \in {"caught", "returned", "propagated"}) => (guard.runs = 1)
    /\ (guard.pc = "caught") => (guard.backtraces = 0 /\ guard.out = NoOutcome)
    /\ (guard.pc = "returned") =>
          /\ guard.cb.kind = "ok"
          /\ guard.out = [kind |-> "value", val |-> guard.cb.val]
          /\ guard.backtraces = 0
    /\ (guard.pc = "propagated") =>
          /\ guard.cb.kind = "panic"
          /\ guard.out = [kind |-> "unwind", val |-> guard.cb.val]
          /\ guard.backtraces = (IF guard.panicking THEN 1 ELSE 0)
    /\ (pc[Dropper] # "idle") => (guard.who = "drop" /\ guard.pc # "idle")
    /\ (guard.who = "drop" /\ guard.pc = "returned") =>
          (pc[Dropper] = "done" /\ composite = "resolved" /\ guard.out.val = "unit")
    /\ (guard.who = "drop" /\ guard.pc = "propagated") =>
          (pc[Dropper] = "panicked" /\ composite = "dropped")

\* The group was dropped while its thread was unwinding, a service panicked during
\* the forced shutdown, and the panic was resumed after one backtrace.
C22_Witness ==
    /\ guard.who = "drop"
    /\ guard.pc = "propagated"
    /\ guard.panicking
    /\ guard.runs = 1
    /\ guard.backtraces = 1
    /\ Len(handles) = 2

\* C23: after any sequence of new, drop, into_inner and replace (and writes of
\* the wrapped value), the shared counter is the number of Counted values alive,
\* and with amounts added by hand through counter_mut it is that number plus
\* their sum; a creation adds 1 and the end of a value (by drop or by
\* into_inner, an ended value never ends again) subtracts 1, and into_inner hands
\* out the wrapped value.
C23_CounterIsLiveCount ==
    /\ []((counted.mcalls = 0) => (counted.n = Cardinality(Live)))
    /\ [](counted.n = Cardinality(Live) + counted.manual)
    /\ [][/\ (Cardinality(Live') = Cardinality(Live) + 1) => (counted'.n = counted.n + 1)
          /\ (Cardinality(Live') = Cardinality(Live) - 1) => (counted'.n = counted.n - 1)
          /\ \A i \in CountedIds :
                /\ (counted.items[i].st \in {"dropped", "taken"})
                      => (counted'.items[i] = counted.items[i])
                /\ (counted.items[i].st = "live" /\ counted'.items[i].st = "taken")
                      => (counted'.out = counted.items[i].inner)]_vars

\* Three values were created; one was replaced and then taken out, one was
\* dropped, one is alive: the counter is 1.
C23_Witness ==
    /\ counted.n = 1
    /\ counted.items[1].st = "taken"
    /\ counted.items[2].st = "dropped"
    /\ counted.items[3].st = "live"
    /\ counted.out = "y"
    /\ counted.last.op = "into_inner"

\* C24: a replace on a live Counted value returns the value wrapped before,
\* stores its argument, and calls incr not at all: the counter and the number of
\* incr calls are as before, and no other value is touched.
C24_ReplaceKeepsCount ==
    [][(counted'.last.op = "replace" /\ counted' # counted) =>
          LET i == counted'.last.id IN
          /\ counted.items[i].st = "live"
          /\ counted'.out = counted.items[i].inner
          /\ counted'.items[i] = [st |-> "live", inner |-> counted'.last.arg]
          /\ counted'.n = counted.n
          /\ counted'.calls = counted.calls
          /\ \A j \in CountedIds \ {i} : counted'.items[j] = counted.items[j]]_vars

\* A value created with "x" was replaced by "y": "x" came back, and the counter is
\* still 1 after one call of incr.
C24_Witness ==
    /\ counted.last = [op |-> "replace", id |-> 1, arg |-> "y"]
    /\ counted.out = "x"
    /\ counted.items[1] = [st |-> "live", inner |-> "y"]
    /\ counted.n = 1
    /\ counted.calls = 1

\* C25: the closure of a DropGuard has not run while the guard is alive; once the
\* guard is dropped it has run exactly once if cancel was never called and not at
\* all otherwise, and it runs in the step that drops the guard.  is_active
\* answers true exactly for a guard not yet cancelled, and a cancel after the
\* first one changes nothing but the number of cancels.
C25_ClosureRunsOnceOnDrop ==
    /\ [](\A g \in GuardIds :
            /\ (dg[g].st \in {"none", "alive"}) => (dg[g].runs = 0)
            /\ (dg[g].st = "alive") => (dg[g].f <=> (dg[g].cancels = 0))
            /\ (dg[g].st = "dropped") =>
                  (dg[g].runs = (IF dg[g].cancels = 0 THEN 1 ELSE 0)))
    /\ [][\A g \in GuardIds :
            /\ (dg'[g].runs # dg[g].runs) =>
                  (dg[g].st = "alive" /\ dg'[g].st = "dropped")
            /\ (dg'[g].seen # dg[g].seen) =>
                  (dg'[g].seen = (IF dg[g].st = "alive" /\ dg[g].cancels = 0
                                  THEN "true" ELSE "false"))
            /\ (dg[g].cancels >= 1 /\ dg'[g].cancels > dg[g].cancels) =>
                  (dg'[g] = [dg[g] EXCEPT !.cancels = @ + 1])]_vars

\* One guard was dropped untouched and its closure ran once; the other was seen
\* active, cancelled twice and dropped, and its closure never ran.
C25_Witness ==
    /\ dg[1] = [st |-> "dropped", f |-> FALSE, runs |-> 1, cancels |-> 0,
                seen |-> "none"]
    /\ dg[2] = [st |-> "dropped", f |-> FALSE, runs |-> 0, cancels |-> 2,
                seen |-> "true"]

\* C26: in every interleaving of the threads, the k calls of next that have
\* returned returned 0, 1, ..., k-1, each value once; a call returns a value at
\* least as large as the number of calls that had returned when it began, so
\* larger than each of their values, and exactly that number when no other call
\* returned in between.
C26_NextIsUniqueAndIncreasing ==
    /\ [](/\ seq.rets = [i \in 1..Len(seq.rets) |-> i - 1]
          /\ \A i, j \in 1..Len(seq.rets) : (i # j) => (seq.rets[i] # seq.rets[j])
          /\ seq.GLOBAL_SEQ = Len(seq.rets))
    /\ [][\A t \in Threads :
            (seq.th[t].at = "in" /\ seq'.th[t].at = "out") =>
                /\ seq'.th[t].res >= seq.th[t].seen
                /\ \A i \in 1..seq.th[t].seen : seq'.th[t].res > seq.rets[i]
                /\ (Len(seq.rets) = seq.th[t].seen) =>
                      (seq'.th[t].res = seq.th[t].seen)]_vars

\* Two threads were inside next at once, both having read the counter at 2; they
\* returned 2 and 3.
C26_Witness ==
    /\ seq.rets = <<0, 1, 2, 3>>
    /\ seq.th[1].seen = 2 /\ seq.th[2].seen = 2
    /\ seq.th[1].res = 3 /\ seq.th[2].res = 2

\* C27: the inspector has been called once if some poll of the wrapper returned
\* Ready and not at all otherwise; it is called in the first poll in which the
\* inner future is Ready, with the inner future's output, and in no poll in which
\* the inner future is Pending or was Ready before; every poll returns what the
\* inner future returned.
C27_InspectorCalledOnceOnReady ==
    /\ [](/\ elapsed.calls = (IF elapsed.last = "Ready" THEN 1 ELSE 0)
          /\ (elapsed.st = "created") => (elapsed.inspector <=> (elapsed.calls = 0))
          /\ (elapsed.calls = 1) =>
                (elapsed.args.output = elapsed.output /\ elapsed.args.output # "none"))
    /\ [][(elapsed'.polls = elapsed.polls + 1) =>
            /\ elapsed'.last = InnerPoll(elapsed)
            /\ elapsed'.lastOut =
                  (IF InnerPoll(elapsed) = "Ready" THEN elapsed.output ELSE "none")
            /\ (elapsed'.calls = elapsed.calls + 1) <=>
                  (InnerPoll(elapsed) = "Ready" /\ elapsed.last # "Ready")
            /\ (elapsed'.calls = elapsed.calls) \/ (elapsed'.calls = elapsed.calls + 1)]_vars

\* The inner future was Pending twice and then Ready with "v"; the wrapper was
\* polled once more after that: the inspector was called once, with "v".
C27_Witness ==
    /\ elapsed.polls = 4
    /\ elapsed.pend = 0
    /\ elapsed.output = "v"
    /\ elapsed.calls = 1
    /\ elapsed.args.output = "v"
    /\ elapsed.last = "Ready"
    /\ elapsed.busy >= 1

\* The char after c: the surrogate code points are skipped.
NextChar(c) == IF c + 1 = SurrogateLo THEN SurrogateHi + 1 ELSE c + 1

\* C28: where prefix_right_bound(p) is Some(b), the strings that start with p
\* are the strings in [p, b).
C28_BoundIsSmallest ==
    (bound.pc = "returned" /\ bound.out.some) =>
      \A s \in Strings :
        StartsWith(s, bound.p) <=>
          (~StrLess(s, bound.p) /\ StrLess(s, bound.out.v))

\* C28, as the code has it: the strings that start with p are the strings in
\* [p, b) where every char of p after the incremented one is char::MAX; with
\* U+D7FF among them the range [p, b) holds strings that do not start with p.
C28_BoundIsSmallestAfterMax ==
    (bound.pc = "returned" /\ bound.out.some) =>
      LET exact == \A i \in (Len(bound.out.v) + 1)..Len(bound.p) : bound.p[i] = CharMax
          range == \A s \in Strings :
                     StartsWith(s, bound.p) <=>
                       (~StrLess(s, bound.p) /\ StrLess(s, bound.out.v))
      IN exact <=> range

\* The bound of "a\u{D7FF}" is "b", and "a\u{E000}" lies in between.
C28_Witness ==
    /\ bound.pc = "returned"
    /\ bound.p = <<97, 55295>>
    /\ bound.out = Some(<<98>>)
    /\ ~StrLess(<<97, 57344>>, bound.p)
    /\ StrLess(<<97, 57344>>, bound.out.v)
    /\ ~StartsWith(<<97, 57344>>, bound.p)

\* C29: prefix_right_bound(p) is None exactly for the empty string and the
\* strings of char::MAX only; for every other p it is the chars before the last
\* char of p that is not char::MAX, followed by the char after that one.
C29_NoneIffNoBound ==
    (bound.pc = "returned") =>
      LET p == bound.p
          I == {i \in 1..Len(p) : p[i] # CharMax}
      IN IF I = {}
         THEN bound.out = None
         ELSE LET i == CHOOSE j \in I : \A k \in I : k <= j
              IN bound.out = Some(Append(SubSeq(p, 1, i - 1), NextChar(p[i])))

\* C29, as the code has it: U+D7FF is passed over like char::MAX.
C29_NoneIffNoSuccessor ==
    (bound.pc = "returned") =>
      LET p == bound.p
          I == {i \in 1..Len(p) : p[i] # CharMax /\ p[i] # SurrogateLo - 1}
      IN IF I = {}
         THEN bound.out = None
         ELSE LET i == CHOOSE j \in I : \A k \in I : k <= j
              IN bound.out = Some(Append(SubSeq(p, 1, i - 1), p[i] + 1))

\* "\u{D7FF}" has the bound "\u{E000}", and prefix_right_bound returns None.
C29_Witness ==
    /\ bound.pc = "returned"
    /\ bound.p = <<55295>>
    /\ bound.out = None
    /\ \A s \in Strings :
         StartsWith(s, bound.p) <=> (~StrLess(s, bound.p) /\ StrLess(s, <<57344>>))

\* Whether the shutdown of a service of this kind completes at its first poll.
Immediate(h) == h.kind \in {"quick", "fail"} \/ (h.kind = "slow" /\ ~h.some)

\* C30: shutdown_all runs no part of a shutdown body: until the composite future
\* is polled there is one future per service and none has been polled, and the
\* force future has not been polled either.  In the first poll the bodies start
\* in insertion order: the futures before the one being polled have started, the
\* others have not, and one that completes without suspending has completed
\* before the next one starts.  After the first poll every body has started.
C30_BodiesRunAtFirstPollInOrder ==
    /\ (composite = "pending") => Len(handles) = Len(services)
    /\ (composite # "none" /\ ~polledOnce) =>
          /\ \A i \in 1..Len(handles) : handles[i].st = "created"
          /\ shared.state = "idle" /\ ~shared.registered
    /\ \A i \in 1..Len(handles) :
          (cursor >= 1 /\ handles[i].st = "created") => i >= cursor
    /\ \A i \in 1..Len(handles) : \A j \in 1..Len(handles) :
          (i < j /\ handles[j].st # "created") =>
              /\ handles[i].st # "created"
              /\ Immediate(handles[i]) => Resolved(handles[i])
    /\ (polledOnce /\ cursor = 0) =>
          \A i \in 1..Len(handles) : handles[i].st # "created"

\* In the first poll the first service's shutdown has completed, the second
\* one's has started and suspended, and no body ran before the poll.
C30_Witness ==
    /\ polledOnce
    /\ cursor = 2
    /\ Len(handles) = 2
    /\ handles[1].kind = "quick"
    /\ handles[1].st = "ok"
    /\ handles[2].st = "created"

\* C31: once the composite future of the successful shutdown_all has been dropped
\* unresolved, the flag stays set, the future stays dropped and is not polled,
\* no service future changes and no service is invoked again; every shutdown_all
\* that reaches its compare_exchange from then on (an explicit call or Drop)
\* returns AlreadyShuttingDown.
C31_DroppedShutdownNeverCompletes ==
    /\ [](composite = "dropped" =>
            /\ shutting_down
            /\ cursor = 0
            /\ sequences = 1
            /\ \A c \in Callers \ {owner} :
                  pc[c] \notin {"build", "await", "done"})
    /\ [][composite = "dropped" =>
            /\ composite' = "dropped"
            /\ shutting_down'
            /\ handles' = handles
            /\ \A i \in 1..Len(invoked) : invoked'[i] = invoked[i]
            /\ \A c \in Callers :
                  (pc[c] = "cas" /\ pc'[c] # "cas") =>
                     (pc'[c] = "failed" /\ ret'[c] = "AlreadyShuttingDown")]_vars

\* The composite future was dropped with a service's shutdown unresolved; a
\* later explicit call and Drop both returned AlreadyShuttingDown, and the
\* service is still not shut down.
C31_Witness ==
    /\ composite = "dropped"
    /\ \E i \in 1..Len(handles) : ~Resolved(handles[i])
    /\ pc[Dropper] = "failed"
    /\ \E c \in Direct : c # owner /\ ret[c] = "AlreadyShuttingDown"

\* C32 as stated: once the future of wait_to_terminate has finished, by either
\* arm of its match, and the Drop of the group after it has been refused, every
\* service of the group has been invoked exactly once.
C32_WaitThenDropAlwaysOnce ==
    (pc[Wtt] \in {"done", "logged"} /\ pc[Dropper] = "failed") =>
        \A i \in 1..Len(services) : invoked[i] = 1

\* C32, amended: when the future of wait_to_terminate has finished the flag is
\* set, the Drop of the group has begun and its shutdown_all returns
\* AlreadyShuttingDown without invoking a service.  Where the shutdown_all of
\* wait_to_terminate was the one that succeeded, no other call site ever builds a
\* shutdown sequence and every service has been invoked exactly once; where an
\* earlier shutdown_all had set the flag (the Err arm), every service has been
\* invoked at most once, a service pushed after that call not at all.
C32_WaitThenDropInvokesOnce ==
    /\ [](/\ (pc[Wtt] \in {"done", "logged"}) =>
                /\ shutting_down
                /\ pc[Dropper] \in {"cas", "failed"}
                /\ \A i \in 1..Len(services) : invoked[i] <= 1
          /\ (pc[Wtt] = "logged" /\ sequences = 1) =>
                \A i \in 1..Len(services) :
                    invoked[i] = (IF i <= Len(handles) THEN 1 ELSE 0)
          /\ (ret[Wtt] = "Ok") =>
                /\ sequences = 1
                /\ pc[Wtt] = "build" \/ owner = Wtt
                /\ \A i \in 1..Len(services) : invoked[i] = 1
                /\ \A c \in Callers \ {Wtt} :
                      pc[c] \notin {"build", "await", "done"} /\ ret[c] # "Ok")
    /\ [][(pc[Wtt] \in {"done", "logged"} /\ pc[Dropper] \in {"idle", "cas"}
                /\ pc'[Dropper] # pc[Dropper]) =>
            /\ invoked' = invoked
            /\ handles' = handles
            /\ pc'[Dropper] \in {"cas", "failed"}
            /\ (pc'[Dropper] = "failed") => (ret'[Dropper] = "AlreadyShuttingDown")]_vars

\* wait_to_terminate shut two services down and finished, and the Drop of the
\* group after it returned AlreadyShuttingDown: both were invoked once.
C32_Witness ==
    /\ pc[Wtt] = "done"
    /\ ret[Wtt] = "Ok"
    /\ pc[Dropper] = "failed"
    /\ ret[Dropper] = "AlreadyShuttingDown"
    /\ Len(services) = 2
    /\ invoked = <<1, 1>>

\* The future of wait_to_terminate was dropped while it waited for the first
\* notification, and no explicit shutdown_all had succeeded before the group was
\* moved into it.
WttDroppedEarly ==
    /\ pc[Wtt] = "abandoned"
    /\ ret[Wtt] = "none"
    /\ \A c \in Direct : c \notin Winners

\* C33: when the future of wait_to_terminate is dropped before the first
\* notification, the flag is still clear when Drop runs, so the shutdown_all of
\* Drop succeeds: every registered service is invoked once, with a force signal
\* that is ready at once (a service that awaits it resolves at its first poll),
\* and Drop returns only when every service's shutdown has resolved.
C33_EarlyDropForcesShutdown ==
    WttDroppedEarly =>
      /\ pc[Dropper] \notin {"idle", "failed"}
      /\ (pc[Dropper] = "cas") => ~shutting_down
      /\ (pc[Dropper] \in {"await", "done"}) =>
            /\ owner = Dropper
            /\ sequences = 1
            /\ shared.src = "ready" /\ EventReady(shared)
            /\ Len(handles) = Len(services)
            /\ \A i \in 1..Len(services) :
                  /\ invoked[i] = 1
                  /\ handles[i].some /\ handles[i].sig = Dropper
                  /\ (handles[i].kind = "slow") => (handles[i].st \in {"created", "ok"})
      /\ (pc[Dropper] = "done") => (composite = "resolved" /\ AllResolved)
      /\ (\E i \in 1..Len(handles) : ~Resolved(handles[i])) => pc[Dropper] # "done"

\* The future of wait_to_terminate was dropped with no notification published;
\* Drop then shut down two services, one of which awaited the force signal, and
\* returned.
C33_Witness ==
    /\ WttDroppedEarly
    /\ sent = 0
    /\ pc[Dropper] = "done"
    /\ Len(handles) = 2
    /\ invoked = <<1, 1>>
    /\ \E i \in 1..2 : handles[i].kind = "slow" /\ handles[i].obs = "fired"

\* C34: push does not test the flag: it can be called whenever the group can be
\* borrowed, also after a shutdown_all has succeeded.  The shutdown sequence is
\* built once, from the services registered at that time; a service pushed
\* afterwards is in the group and its shutdown has not been invoked, whatever
\* calls of shutdown_all and whatever Drop came after it.
C34_LatePushNeverShutDown ==
    /\ (/\ Len(services) < MaxServices
        /\ pc[Wtt] = "idle" /\ pc[Dropper] = "idle"
        /\ \A c \in Direct : Free(c)) => ENABLED Push("quick")
    /\ sequences <= 1
    /\ Len(handles) <= Len(services)
    /\ Len(invoked) = Len(services)
    /\ (sequences = 1) =>
          \A i \in 1..Len(services) :
              invoked[i] = (IF i <= Len(handles) THEN 1 ELSE 0)

\* A service was pushed after a successful shutdown_all; a further shutdown_all
\* and Drop returned AlreadyShuttingDown, and its shutdown was not invoked.
C34_Witness ==
    /\ shutting_down
    /\ Len(handles) = 1
    /\ Len(services) = 2
    /\ invoked = <<1, 0>>
    /\ pc[Dropper] = "failed"
    /\ \E c \in Direct : ret[c] = "AlreadyShuttingDown"
====
